---- MODULE Spec2Model ----
(***************************************************************************)
(* Model of health/tracker.go (package health of erpc): the Tracker's two  *)
(* concurrent stores (metrics: tripletKey -> *TrackedMetrics, metadata:    *)
(* duoKey -> *NetworkMetadata), the recorders, cordon control, the block   *)
(* number setters with their lag cascade, and the windowed reset loop.     *)
(*                                                                         *)
(* Every atomic operation of the code (an atomic.Int64 Load/Store/Add, a   *)
(* sync.Map Load/LoadOrStore, one visit of a sync.Map Range) is one step   *)
(* of the calling goroutine; goroutines interleave between steps.          *)
(***************************************************************************)
EXTENDS Integers, FiniteSets, Sequences, TLC

VARIABLES
    metrics,    \* Tracker.metrics : tripletKey -> TrackedMetrics (present = in the map)
    metadata,   \* Tracker.metadata: duoKey -> NetworkMetadata    (present = in the map)
    th,         \* per goroutine: the call it is running, its position and its locals
    loop,       \* the resetMetricsLoop goroutine
    snap,       \* history: the metrics store as it was when a goroutine's call began
    hist        \* history: what has been called so far (used only by properties)

vars == <<metrics, metadata, th, loop, snap, hist>>

----------------------------------------------------------------------------
(* Bounds of the model *)

MaxBlock == 2       \* block numbers supplied to the setters are -1 .. MaxBlock
MaxCalls == 3       \* calls started in one behaviour of one goroutine
MaxRaceCalls == 2   \* calls started in one behaviour of two goroutines
MaxRaceRecords == 1 \* record-creating calls beside the racing setters
MaxRecCalls == 4    \* calls started in one behaviour of two recording goroutines
MaxTicks == 1       \* ticks of the reset loop's ticker in one behaviour

Wild == "*"
Threads == {"t1", "t2"}
Ups == {"A", "B"}
Nets == {"n1"}
RecNets == {"n1", "n2"}
Methods == {"m1", "m2"}
Reasons == {"r1"}
NilReason == "<nil>"          \* CordonedReason before any Store (atomic.Value zero)
BlockNumbers == (0 - 1) .. MaxBlock

----------------------------------------------------------------------------
(* Keys *)

tripletKey(u, n, m) == [ups |-> u, network |-> n, method |-> m]
duoKey(u, n) == [ups |-> u, network |-> n]

AllKeys == {tripletKey(u, n, m) : u \in Ups \cup {Wild},
                                 n \in RecNets \cup {Wild},
                                 m \in Methods \cup {Wild, ""}}
AllDuoKeys == {duoKey(u, n) : u \in Ups \cup {Wild}, n \in RecNets}
ConcreteKeys == {tripletKey(u, n, m) : u \in Ups, n \in RecNets, m \in Methods}
Counters == {"RequestsTotal", "ErrorsTotal", "SelfRateLimitedTotal",
             "RemoteRateLimitedTotal"}
NoKey == tripletKey("", "", "")
NoDuo == duoKey("", "")

\* Tracker.getKeys: the five expansions of a triplet, in the code's order
getKeysExactTwice(ups, network, method) ==
    << tripletKey(ups, network, method),
       tripletKey(ups, network, Wild),
       tripletKey(ups, network, method),
       tripletKey(Wild, network, method),
       tripletKey(Wild, network, Wild) >>
getKeys(ups, network, method) ==
    << tripletKey(ups, network, method),
       tripletKey(ups, network, Wild),
       tripletKey(ups, Wild, Wild),
       tripletKey(Wild, network, method),
       tripletKey(Wild, network, Wild) >>

----------------------------------------------------------------------------
(* Records *)

\* &TrackedMetrics{ResponseQuantiles: NewQuantileTracker()}: every atomic is zero
NewTrackedMetrics ==
    [present |-> TRUE,
     ErrorsTotal |-> 0, SelfRateLimitedTotal |-> 0, RemoteRateLimitedTotal |-> 0,
     RequestsTotal |-> 0, BlockHeadLag |-> 0, FinalizationLag |-> 0,
     BlockHeadLargeRollback |-> 0, Cordoned |-> FALSE, CordonedReason |-> NilReason]
AbsentMetrics == [NewTrackedMetrics EXCEPT !.present = FALSE]

\* TrackedMetrics.ErrorRate, lines 66-72: the float64 quotient as the fraction
\* <<numerator, denominator>>; a denominator of 0 is the float division by zero
\* (+Inf or NaN in Go), which is not the number 0
ErrorRateUnguarded(m) == <<m.ErrorsTotal, m.RequestsTotal>>
ErrorRate(m) ==
    IF m.RequestsTotal = 0 THEN <<0, 1>> ELSE <<m.ErrorsTotal, m.RequestsTotal>>

\* &NetworkMetadata{}
NewNetworkMetadata ==
    [present |-> TRUE, evmLatestBlockNumber |-> 0, evmFinalizedBlockNumber |-> 0]
AbsentMetadata == [NewNetworkMetadata EXCEPT !.present = FALSE]

\* lines 186-190 / 201-205: what get-or-create returns after LoadOrStore: the
\* instance found in the map ("actual") when loaded, else its own candidate ("new")
GetOrCreateResultCandidate(loaded) == "new"
GetOrCreateResult(loaded) == IF loaded THEN "actual" ELSE "new"

\* sync.Map.LoadOrStore on Tracker.metrics: the first insert wins
StoreMetricsAlways(m, k) == [m EXCEPT ![k] = NewTrackedMetrics]
LoadOrStoreMetrics(m, k) ==
    IF m[k].present THEN m ELSE [m EXCEPT ![k] = NewTrackedMetrics]

\* sync.Map.LoadOrStore on Tracker.metadata
LoadOrStoreMetadata(md, k) ==
    IF md[k].present THEN md ELSE [md EXCEPT ![k] = NewNetworkMetadata]

\* the block number field a setter works on
Mark(nm, kind) ==
    IF kind = "latest" THEN nm.evmLatestBlockNumber ELSE nm.evmFinalizedBlockNumber
SetMark(nm, kind, v) ==
    IF kind = "latest" THEN [nm EXCEPT !.evmLatestBlockNumber = v]
                       ELSE [nm EXCEPT !.evmFinalizedBlockNumber = v]
\* the lag gauge a setter works on
SetLag(tm, kind, v) ==
    IF kind = "latest" THEN [tm EXCEPT !.BlockHeadLag = v]
                       ELSE [tm EXCEPT !.FinalizationLag = v]
Lag(tm, kind) == IF kind = "latest" THEN tm.BlockHeadLag ELSE tm.FinalizationLag

\* `if blockNumber > oldNtwVal` / `if blockNumber > oldUpsVal`
AdvancesAlways(blockNumber, oldVal) == blockNumber # oldVal
Advances(blockNumber, oldVal) == blockNumber > oldVal

Max(a, b) == IF a > b THEN a ELSE b

----------------------------------------------------------------------------
(* Goroutine state *)

Idle ==
    [pc |-> "idle", op |-> "none", kind |-> "none",
     ups |-> "", network |-> "", method |-> "", blockNumber |-> 0, reason |-> "",
     i |-> 0, cur |-> NoKey, md |-> NoDuo, ret |-> "none",
     needsGlobalUpdate |-> FALSE, oldVal |-> 0, ntwBn |-> 0, upsLag |-> 0,
     otherVal |-> 0, todo |-> {}, visited |-> {}, result |-> FALSE,
     tm |-> "none", mine |-> {}, clean |-> FALSE]

\* ctx is the context Bootstrap hands to resetMetricsLoop: "live" or "done"
LoopIdle == [pc |-> "wait", todo |-> {}, visited |-> {}, cur |-> NoKey, j |-> 0,
             clean |-> FALSE, ticks |-> 0, ctx |-> "live"]

Present == {k \in AllKeys : metrics[k].present}
InFlight(t) == th[t].pc # "idle"
LoopInFlight == loop.pc \notin {"wait", "stopped"}
Quiescent == (\A t \in Threads : ~InFlight(t)) /\ ~LoopInFlight

\* snap of a goroutine whose call is not running alone
NoSnap == [k \in AllKeys |-> AbsentMetrics]

EmptyHist ==
    [calls |-> 0,
     overlapped |-> FALSE,
     seen |-> [kd \in {"latest", "finalized"} |-> [d \in AllDuoKeys |-> 0]],
     recorded |-> [f \in Counters |-> [k \in ConcreteKeys |-> 0]],
     by |-> [t \in Threads |-> 0],
     cordons |-> 0,
     setters |-> 0,
     missed |-> {},
     racing |-> {},
     smeared |-> FALSE,
     tick |-> "none"]

Init ==
    /\ metrics = [k \in AllKeys |-> AbsentMetrics]
    /\ metadata = [d \in AllDuoKeys |-> AbsentMetadata]
    /\ th = [t \in Threads |-> Idle]
    /\ loop = LoopIdle
    /\ snap = [t \in Threads |-> NoSnap]
    /\ hist = EmptyHist

\* A call by t begins: it is clean iff nothing else is running; whatever is
\* running now overlaps it.
OthersRunning(t) == (\E o \in Threads \ {t} : InFlight(o)) \/ LoopInFlight
BeginCall(t, frame, h) ==
    /\ ~InFlight(t)
    /\ hist' = [h EXCEPT !.calls = hist.calls + 1,
                         !.overlapped = hist.overlapped \/ OthersRunning(t)]
    /\ th' = [o \in Threads |->
                IF o = t THEN [frame EXCEPT !.clean = ~OthersRunning(t)]
                ELSE [th[o] EXCEPT !.clean = FALSE]]
    /\ loop' = [loop EXCEPT !.clean = FALSE]
    /\ snap' = [o \in Threads |->
                  IF o = t /\ ~OthersRunning(t) THEN metrics ELSE NoSnap]

\* A step of t. The pointer a get-or-create returned is used by the step that
\* follows it and is dead after that step.
Step(t, frame) == th' = [th EXCEPT ![t] = [frame EXCEPT !.tm = "none", !.mine = {}]]

\* Goroutine t is about to run the step named p. A getMetadata / getMetrics
\* whose Load finds the key takes no step of its own: a key once in the map
\* stays there, so that Load is folded into the step it returns to.
At(t, p) ==
    \/ th[t].pc = p
    \/ th[t].pc = "getMetadata" /\ th[t].ret = p /\ metadata[th[t].md].present
    \/ th[t].pc = "getMetrics" /\ th[t].ret = p /\ metrics[th[t].cur].present

\* the function returns: the goroutine is free for its next call
Return(t) ==
    /\ th[t].pc = "done"
    /\ th' = [th EXCEPT ![t] = Idle]
    /\ snap' = [snap EXCEPT ![t] = NoSnap]
    /\ UNCHANGED <<metrics, metadata, loop, hist>>

----------------------------------------------------------------------------
(* getMetadata: Load (a miss is a step), then LoadOrStore *)

GetMetadataLoad(t) ==
    /\ th[t].pc = "getMetadata"
    /\ ~metadata[th[t].md].present
    /\ Step(t, [th[t] EXCEPT !.pc = "getMetadataLoadOrStore"])
    /\ UNCHANGED <<metrics, metadata, loop, snap, hist>>

\* th[t].tm is the instance the caller receives, th[t].mine the key whose
\* instance in the map is the candidate this LoadOrStore inserted
GetMetadataLoadOrStore(t) ==
    /\ th[t].pc = "getMetadataLoadOrStore"
    /\ metadata' = LoadOrStoreMetadata(metadata, th[t].md)
    /\ th' = [th EXCEPT ![t] = [th[t] EXCEPT
           !.pc = th[t].ret,
           !.tm = GetOrCreateResult(metadata[th[t].md].present),
           !.mine = IF metadata[th[t].md].present THEN {} ELSE {th[t].md}]]
    /\ UNCHANGED <<metrics, loop, snap, hist>>

----------------------------------------------------------------------------
(* SetLatestBlockNumber / SetFinalizedBlockNumber *)

\* history: the largest positive block number supplied so far for (kind, ups, network)
Observe(kind, ups, network, blockNumber) ==
    IF blockNumber > 0
      THEN [hist EXCEPT !.seen[kind][duoKey(ups, network)] = Max(@, blockNumber),
                        !.setters = @ + 1]
      ELSE [hist EXCEPT !.setters = @ + 1]

\* line 354 / 439: `if blockNumber <= 0 { ...; return }`
DiscardedIfNegative(blockNumber) == blockNumber < 0
Discarded(blockNumber) == blockNumber <= 0

\* lines 351-363: the guard on blockNumber, then getMetadata(ntwMdKey)
SetLatestBlockNumber(t, ups, network, blockNumber) ==
        /\ BeginCall(t, [Idle EXCEPT
               !.op = "SetLatestBlockNumber", !.kind = "latest",
               !.ups = ups, !.network = network, !.blockNumber = blockNumber,
               !.pc = IF Discarded(blockNumber) THEN "done" ELSE "getMetadata",
               !.md = IF Discarded(blockNumber) THEN NoDuo ELSE duoKey(Wild, network),
               !.ret = IF Discarded(blockNumber) THEN "none" ELSE "loadNtw"],
             Observe("latest", ups, network, blockNumber))
        /\ UNCHANGED <<metrics, metadata>>

\* lines 436-447: the guard on blockNumber, then getMetadata(mdKey)
SetFinalizedBlockNumber(t, ups, network, blockNumber) ==
        /\ BeginCall(t, [Idle EXCEPT
               !.op = "SetFinalizedBlockNumber", !.kind = "finalized",
               !.ups = ups, !.network = network, !.blockNumber = blockNumber,
               !.pc = IF Discarded(blockNumber) THEN "done" ELSE "getMetadata",
               !.md = IF Discarded(blockNumber) THEN NoDuo ELSE duoKey(ups, network),
               !.ret = IF Discarded(blockNumber) THEN "none" ELSE "getNtwMeta"],
             Observe("finalized", ups, network, blockNumber))
        /\ UNCHANGED <<metrics, metadata>>

\* line 448: ntwMeta := t.getMetadata(ntwMdKey), after upsMeta (finalized only)
FinalizedGetNtwMeta(t) ==
    /\ At(t, "getNtwMeta")
    /\ Step(t, [th[t] EXCEPT !.pc = "getMetadata",
                             !.md = duoKey(Wild, th[t].network), !.ret = "loadNtw"])
    /\ UNCHANGED <<metrics, metadata, loop, snap, hist>>

\* lines 364-366 / 451-453: oldNtwVal := ntwMeta.<field>.Load(); the comparison
LoadNtw(t) ==
    /\ At(t, "loadNtw")
    /\ LET old == Mark(metadata[duoKey(Wild, th[t].network)], th[t].kind) IN
       Step(t, [th[t] EXCEPT
           !.oldVal = old,
           !.pc = IF Advances(th[t].blockNumber, old) THEN "storeNtw"
                  ELSE IF th[t].kind = "latest" THEN "getMetadata" ELSE "loadUps",
           !.md = IF ~Advances(th[t].blockNumber, old) /\ th[t].kind = "latest"
                    THEN duoKey(th[t].ups, th[t].network) ELSE NoDuo,
           !.ret = IF ~Advances(th[t].blockNumber, old) /\ th[t].kind = "latest"
                    THEN "loadUps" ELSE "none"])
    /\ UNCHANGED <<metrics, metadata, loop, snap, hist>>

\* lines 367-371 / 454-458: ntwMeta.<field>.Store(blockNumber); needsGlobalUpdate = true
StoreNtw(t) ==
    /\ th[t].pc = "storeNtw"
    /\ metadata' = [metadata EXCEPT ![duoKey(Wild, th[t].network)] =
                       SetMark(@, th[t].kind, th[t].blockNumber)]
    /\ Step(t, [th[t] EXCEPT
           !.needsGlobalUpdate = TRUE,
           !.pc = IF th[t].kind = "latest" THEN "getMetadata" ELSE "loadUps",
           !.md = IF th[t].kind = "latest"
                    THEN duoKey(th[t].ups, th[t].network) ELSE NoDuo,
           !.ret = IF th[t].kind = "latest" THEN "loadUps" ELSE "none"])
    /\ UNCHANGED <<metrics, loop, snap, hist>>

\* lines 376-377 / 462-463: oldUpsVal := upsMeta.<field>.Load(); the comparison
LoadUps(t) ==
    /\ At(t, "loadUps")
    /\ LET old == Mark(metadata[duoKey(th[t].ups, th[t].network)], th[t].kind) IN
       Step(t, [th[t] EXCEPT
           !.oldVal = old, !.md = NoDuo, !.ret = "none",
           !.pc = IF Advances(th[t].blockNumber, old) THEN "storeUps" ELSE "reloadNtw"])
    /\ UNCHANGED <<metrics, metadata, loop, snap, hist>>

\* lines 378-381 / 464-467: upsMeta.<field>.Store(blockNumber)
StoreUps(t) ==
    /\ th[t].pc = "storeUps"
    /\ metadata' = [metadata EXCEPT ![duoKey(th[t].ups, th[t].network)] =
                       SetMark(@, th[t].kind, th[t].blockNumber)]
    /\ Step(t, [th[t] EXCEPT !.pc = "reloadNtw"])
    /\ UNCHANGED <<metrics, loop, snap, hist>>

\* lines 385-389 / 471-475: ntwBn := ntwMeta.<field>.Load(); return if <= 0
ReloadNtw(t) ==
    /\ th[t].pc = "reloadNtw"
    /\ LET ntwBn == Mark(metadata[duoKey(Wild, th[t].network)], th[t].kind) IN
       Step(t, [th[t] EXCEPT !.ntwBn = ntwBn, !.oldVal = 0,
                             !.pc = IF ntwBn <= 0 THEN "done" ELSE "reloadUps"])
    /\ UNCHANGED <<metrics, metadata, loop, snap, hist>>

\* the keys a Range callback acts on: line 404 / 492 (cascade), line 427 / 515 (own)
CascadeMatch(k, ups, network) == k.network = network
OwnMatchNetworkOnly(k, ups, network) == k.network = network
OwnMatch(k, ups, network) == k.ups = ups /\ k.network = network
RangeMatch(t, k) ==
    IF th[t].needsGlobalUpdate THEN CascadeMatch(k, th[t].ups, th[t].network)
                               ELSE OwnMatch(k, th[t].ups, th[t].network)

\* line 391 / 478: upsLag := ntwBn - upsVal
UpsLagReversed(ntwBn, upsVal) == upsVal - ntwBn
UpsLag(ntwBn, upsVal) == ntwBn - upsVal

\* line 391 / 477-478: upsLag := ntwBn - upsMeta.<field>.Load(); then Range begins.
\* Range visits every key that is in the map when it begins.
ReloadUps(t) ==
    /\ th[t].pc = "reloadUps"
    /\ LET upsVal == Mark(metadata[duoKey(th[t].ups, th[t].network)], th[t].kind) IN
       Step(t, [th[t] EXCEPT !.upsLag = UpsLag(th[t].ntwBn, upsVal), !.pc = "range",
                             !.todo = {k \in Present : RangeMatch(t, k)},
                             !.visited = {}])
    /\ UNCHANGED <<metrics, metadata, loop, snap, hist>>

\* one visit of t.metrics.Range, cascade branch (lines 399-406 / 487-494): a key
\* not yet visited; a key stored after Range began may or may not be visited.
\* Keys the callback's filter rejects are visited without any effect.
RangeCascadeVisit(t) ==
    /\ th[t].pc = "range"
    /\ th[t].needsGlobalUpdate
    /\ \E k \in Present \ th[t].visited :
        /\ RangeMatch(t, k)
        /\ Step(t, [th[t] EXCEPT !.visited = @ \cup {k}, !.cur = k,
                                 !.pc = "getMetadata",
                                 !.md = duoKey(k.ups, th[t].network),
                                 !.ret = "otherLoad"])
    /\ UNCHANGED <<metrics, metadata, loop, snap, hist>>

\* lines 407-411 / 495-499: otherVal := otherUpsMeta.<field>.Load(); skip if <= 0
OtherLoad(t) ==
    /\ At(t, "otherLoad")
    /\ LET otherVal == Mark(metadata[th[t].md], th[t].kind) IN
       Step(t, [th[t] EXCEPT !.md = NoDuo, !.ret = "none",
                             !.otherVal = IF otherVal <= 0 THEN 0 ELSE otherVal,
                             !.cur = IF otherVal <= 0 THEN NoKey ELSE th[t].cur,
                             !.pc = IF otherVal <= 0 THEN "range" ELSE "otherStore"])
    /\ UNCHANGED <<metrics, metadata, loop, snap, hist>>

\* line 412 / 500: otherLag := ntwBn - otherVal
OtherLagOfReporter(ntwBn, otherVal, upsLag) == upsLag
OtherLag(ntwBn, otherVal, upsLag) == ntwBn - otherVal

\* line 413 / 501: tm.<lag>.Store(otherLag)
OtherStore(t) ==
    /\ th[t].pc = "otherStore"
    /\ metrics' = [metrics EXCEPT ![th[t].cur] =
           SetLag(@, th[t].kind, OtherLag(th[t].ntwBn, th[t].otherVal, th[t].upsLag))]
    /\ Step(t, [th[t] EXCEPT !.pc = "range", !.cur = NoKey, !.otherVal = 0])
    /\ UNCHANGED <<metadata, loop, snap, hist>>

\* one visit of t.metrics.Range, single-upstream branch (lines 422-432 / 510-520):
\* tm.<lag>.Store(upsLag)
RangeOwnVisit(t) ==
    /\ th[t].pc = "range"
    /\ ~th[t].needsGlobalUpdate
    /\ \E k \in Present \ th[t].visited :
        /\ RangeMatch(t, k)
        /\ metrics' = [metrics EXCEPT ![k] = SetLag(@, th[t].kind, th[t].upsLag)]
        /\ Step(t, [th[t] EXCEPT !.visited = @ \cup {k}])
    /\ UNCHANGED <<metadata, loop, snap, hist>>

\* history: the records a cascade pass ends without having visited although
\* their upstream has a block number > 0 (records stored while the pass ran)
Missed(t) ==
    {k \in Present \ th[t].visited :
        /\ th[t].needsGlobalUpdate
        /\ RangeMatch(t, k)
        /\ Mark(metadata[duoKey(k.ups, th[t].network)], th[t].kind) > 0}

\* Range returns once every key that was in the map when it began has been visited
RangeEnd(t) ==
    /\ th[t].pc = "range"
    /\ th[t].todo \subseteq th[t].visited
    /\ Step(t, [th[t] EXCEPT !.pc = "done", !.todo = {}, !.visited = {}])
    /\ hist' = [hist EXCEPT !.missed = @ \cup Missed(t)]
    /\ UNCHANGED <<metrics, metadata, loop, snap>>

----------------------------------------------------------------------------
(* getMetrics: Load (a miss is a step), then LoadOrStore *)

GetMetricsLoad(t) ==
    /\ th[t].pc = "getMetrics"
    /\ ~metrics[th[t].cur].present
    /\ Step(t, [th[t] EXCEPT !.pc = "getMetricsLoadOrStore"])
    /\ UNCHANGED <<metrics, metadata, loop, snap, hist>>

GetMetricsLoadOrStore(t) ==
    /\ th[t].pc = "getMetricsLoadOrStore"
    /\ metrics' = LoadOrStoreMetrics(metrics, th[t].cur)
    /\ th' = [th EXCEPT ![t] = [th[t] EXCEPT
           !.pc = th[t].ret,
           !.tm = GetOrCreateResult(metrics[th[t].cur].present),
           !.mine = IF metrics[th[t].cur].present THEN {} ELSE {th[t].cur}]]
    /\ UNCHANGED <<metadata, loop, snap, hist>>

----------------------------------------------------------------------------
(* Recorders: RecordUpstreamRequest / Failure / SelfRateLimited / RemoteRateLimited *)

Counter(tm, f) ==
    CASE f = "RequestsTotal" -> tm.RequestsTotal
      [] f = "ErrorsTotal" -> tm.ErrorsTotal
      [] f = "SelfRateLimitedTotal" -> tm.SelfRateLimitedTotal
      [] f = "RemoteRateLimitedTotal" -> tm.RemoteRateLimitedTotal

\* m.<counter>.Add(1)
CounterAdd(tm, f) ==
    CASE f = "RequestsTotal" -> [tm EXCEPT !.RequestsTotal = @ + 1]
      [] f = "ErrorsTotal" -> [tm EXCEPT !.ErrorsTotal = @ + 1]
      [] f = "SelfRateLimitedTotal" -> [tm EXCEPT !.SelfRateLimitedTotal = @ + 1]
      [] f = "RemoteRateLimitedTotal" -> [tm EXCEPT !.RemoteRateLimitedTotal = @ + 1]

\* the number of keys a recorder's loop goes through: len(getKeys(...))
NumKeysExactOnly(ups, network, method) == 1
NumKeys(ups, network, method) == Len(getKeys(ups, network, method))

\* keys := t.getKeys(ups, network, method); the loop starts at its first key
Record(t, op, f, ups, network, method) ==
    /\ BeginCall(t, [Idle EXCEPT
           !.op = op, !.kind = f, !.ups = ups, !.network = network, !.method = method,
           !.i = 1, !.cur = getKeys(ups, network, method)[1],
           !.pc = "getMetrics", !.ret = "add"],
         [hist EXCEPT !.recorded[f][tripletKey(ups, network, method)] = @ + 1,
                      !.by[t] = @ + 1,
                      !.smeared = @ \/ LoopInFlight])
    /\ UNCHANGED <<metrics, metadata>>

RecordUpstreamRequest(t, ups, network, method) ==
        Record(t, "RecordUpstreamRequest", "RequestsTotal", ups, network, method)

RecordUpstreamFailure(t, ups, network, method) ==
        Record(t, "RecordUpstreamFailure", "ErrorsTotal", ups, network, method)

RecordUpstreamSelfRateLimited(t, ups, network, method) ==
        Record(t, "RecordUpstreamSelfRateLimited", "SelfRateLimitedTotal",
               ups, network, method)

RecordUpstreamRemoteRateLimited(t, ups, network, method) ==
        Record(t, "RecordUpstreamRemoteRateLimited", "RemoteRateLimitedTotal",
               ups, network, method)

\* m.<counter>.Add(1) on the current key, then the next key of the loop
RecordAdd(t) ==
    /\ At(t, "add")
    /\ metrics' = [metrics EXCEPT ![th[t].cur] = CounterAdd(@, th[t].kind)]
    /\ IF th[t].i < NumKeys(th[t].ups, th[t].network, th[t].method)
         THEN Step(t, [th[t] EXCEPT
                  !.i = @ + 1,
                  !.cur = getKeys(th[t].ups, th[t].network, th[t].method)[th[t].i + 1],
                  !.pc = "getMetrics"])
         ELSE Step(t, [th[t] EXCEPT !.i = 0, !.cur = NoKey, !.ret = "none",
                                    !.pc = "done"])
    /\ UNCHANGED <<metadata, loop, snap, hist>>

----------------------------------------------------------------------------
(* RecordBlockHeadLargeRollback *)

\* lines 525-528: rollback := currentVal - newVal; the key has no method
RecordBlockHeadLargeRollback(t, ups, network, currentVal, newVal) ==
    /\ BeginCall(t, [Idle EXCEPT
           !.op = "RecordBlockHeadLargeRollback", !.ups = ups, !.network = network,
           !.blockNumber = currentVal - newVal,
           !.cur = tripletKey(ups, network, ""),
           !.pc = "getMetrics", !.ret = "rollback"],
         hist)
    /\ UNCHANGED <<metrics, metadata>>

\* line 529: tm.BlockHeadLargeRollback.Store(rollback)
RollbackStore(t) ==
    /\ At(t, "rollback")
    /\ metrics' = [metrics EXCEPT ![th[t].cur].BlockHeadLargeRollback = th[t].blockNumber]
    /\ Step(t, [th[t] EXCEPT !.pc = "done", !.ret = "none"])
    /\ UNCHANGED <<metadata, loop, snap, hist>>

----------------------------------------------------------------------------
(* Cordon / Uncordon / IsCordoned *)

\* line 219 / 227: the key whose record Cordon and Uncordon work on
CordonKeyOfAllMethods(ups, network, method) == tripletKey(ups, network, Wild)
CordonKey(ups, network, method) == tripletKey(ups, network, method)

CordonOps == {"Cordon", "Uncordon"}

\* A Cordon, an Uncordon or a Reset begins on the record of k. hist.racing
\* holds the keys whose most recent such call overlapped another one on the
\* same record.
RacingAfter(k) ==
    IF \/ \E t \in Threads : InFlight(t) /\ th[t].op \in CordonOps /\ th[t].cur = k
       \/ loop.pc = "reset" /\ loop.cur = k
      THEN hist.racing \cup {k}
      ELSE hist.racing \ {k}

\* lines 221 / 229: the value stored to CordonedReason, old being the value it held
CordonedReasonKeptByUncordon(op, reason, old) == IF op = "Cordon" THEN reason ELSE old
CordonedReasonStored(op, reason, old) == IF op = "Cordon" THEN reason ELSE ""

\* line 219: tm := t.getMetrics(tripletKey{ups, network, method})
Cordon(t, ups, network, method, reason) ==
    /\ BeginCall(t, [Idle EXCEPT
           !.op = "Cordon", !.ups = ups, !.network = network, !.method = method,
           !.reason = reason, !.cur = CordonKey(ups, network, method),
           !.pc = "getMetrics", !.ret = "cordonFlag"],
         [hist EXCEPT !.tick = "none", !.cordons = @ + 1,
                      !.racing = RacingAfter(CordonKey(ups, network, method))])
    /\ UNCHANGED <<metrics, metadata>>

\* line 227
Uncordon(t, ups, network, method) ==
    /\ BeginCall(t, [Idle EXCEPT
           !.op = "Uncordon", !.ups = ups, !.network = network, !.method = method,
           !.cur = CordonKey(ups, network, method),
           !.pc = "getMetrics", !.ret = "cordonFlag"],
         [hist EXCEPT !.racing = RacingAfter(CordonKey(ups, network, method))])
    /\ UNCHANGED <<metrics, metadata>>

\* line 220: tm.Cordoned.Store(true); line 228: tm.Cordoned.Store(false)
CordonedStore(t) ==
    /\ At(t, "cordonFlag")
    /\ metrics' = [metrics EXCEPT ![th[t].cur].Cordoned = (th[t].op = "Cordon")]
    /\ Step(t, [th[t] EXCEPT !.pc = "cordonReason"])
    /\ UNCHANGED <<metadata, loop, snap, hist>>

\* line 221: tm.CordonedReason.Store(reason); line 229: tm.CordonedReason.Store("")
CordonedReasonStore(t) ==
    /\ th[t].pc = "cordonReason"
    /\ metrics' = [metrics EXCEPT ![th[t].cur].CordonedReason =
                      CordonedReasonStored(th[t].op, th[t].reason, @)]
    /\ Step(t, [th[t] EXCEPT !.pc = "done", !.ret = "none"])
    /\ UNCHANGED <<metadata, loop, snap, hist>>

\* lines 237-242: the record of (ups, network, "*") is in the map and cordoned
WildCordonedOfUpstream(m, ups, network) ==
    /\ m[tripletKey(ups, Wild, Wild)].present
    /\ m[tripletKey(ups, Wild, Wild)].Cordoned
WildCordoned(m, ups, network) ==
    /\ m[tripletKey(ups, network, Wild)].present
    /\ m[tripletKey(ups, network, Wild)].Cordoned

\* lines 244-248: the exact record's flag, false when there is no record
ExactCordonedAnyMethod(m, ups, network, method) ==
    /\ m[tripletKey(ups, network, Wild)].present
    /\ m[tripletKey(ups, network, Wild)].Cordoned
ExactCordoned(m, ups, network, method) ==
    /\ m[tripletKey(ups, network, method)].present
    /\ m[tripletKey(ups, network, method)].Cordoned

\* what IsCordoned returns when nothing runs between its two loads
IsCordonedIn(m, ups, network, method) ==
    IF WildCordoned(m, ups, network) THEN TRUE
    ELSE ExactCordoned(m, ups, network, method)

IsCordoned(t, ups, network, method) ==
    /\ BeginCall(t, [Idle EXCEPT
           !.op = "IsCordoned", !.ups = ups, !.network = network, !.method = method,
           !.pc = "isCordonedWild"],
         hist)
    /\ UNCHANGED <<metrics, metadata>>

\* lines 237-242
IsCordonedWild(t) ==
    /\ th[t].pc = "isCordonedWild"
    /\ IF WildCordoned(metrics, th[t].ups, th[t].network)
         THEN Step(t, [th[t] EXCEPT !.result = TRUE, !.pc = "done"])
         ELSE Step(t, [th[t] EXCEPT !.pc = "isCordonedExact"])
    /\ UNCHANGED <<metrics, metadata, loop, snap, hist>>

\* lines 244-248
IsCordonedExact(t) ==
    /\ th[t].pc = "isCordonedExact"
    /\ Step(t, [th[t] EXCEPT
           !.result = ExactCordoned(metrics, th[t].ups, th[t].network, th[t].method),
           !.pc = "done"])
    /\ UNCHANGED <<metrics, metadata, loop, snap, hist>>

----------------------------------------------------------------------------
(* Accessors *)

\* line 321: return t.getMetrics(tripletKey{ups, network, method})
GetUpstreamMethodMetrics(t, ups, network, method) ==
    /\ BeginCall(t, [Idle EXCEPT
           !.op = "GetUpstreamMethodMetrics", !.ups = ups, !.network = network,
           !.method = method, !.cur = tripletKey(ups, network, method),
           !.pc = "getMetrics", !.ret = "accessorReturn"],
         hist)
    /\ UNCHANGED <<metrics, metadata>>

\* line 344: return t.getMetrics(tripletKey{"*", network, method})
GetNetworkMethodMetrics(t, network, method) ==
    /\ BeginCall(t, [Idle EXCEPT
           !.op = "GetNetworkMethodMetrics", !.ups = Wild, !.network = network,
           !.method = method, !.cur = tripletKey(Wild, network, method),
           !.pc = "getMetrics", !.ret = "accessorReturn"],
         hist)
    /\ UNCHANGED <<metrics, metadata>>

\* getMetrics never returns nil: the caller receives the record of th[t].cur
AccessorReturn(t) ==
    /\ At(t, "accessorReturn")
    /\ Step(t, [th[t] EXCEPT !.result = TRUE, !.pc = "done", !.ret = "none"])
    /\ UNCHANGED <<metrics, metadata, loop, snap, hist>>

\* line 333: the records GetUpstreamMetrics puts into its result
UpstreamMatch(k, upsId) == k.ups = upsId

\* lines 325-328: result := make(map); t.metrics.Range begins
GetUpstreamMetrics(t, upsId) ==
    /\ BeginCall(t, [Idle EXCEPT
           !.op = "GetUpstreamMetrics", !.ups = upsId, !.pc = "accessorRange",
           !.todo = {k \in Present : UpstreamMatch(k, upsId)}],
         hist)
    /\ UNCHANGED <<metrics, metadata>>

\* lines 333-337: result[suffix] = tm for a record of upsId not yet visited;
\* th[t].visited holds the keys of the result
AccessorRangeVisit(t) ==
    /\ th[t].pc = "accessorRange"
    /\ \E k \in Present \ th[t].visited :
        /\ UpstreamMatch(k, th[t].ups)
        /\ Step(t, [th[t] EXCEPT !.visited = @ \cup {k}])
    /\ UNCHANGED <<metrics, metadata, loop, snap, hist>>

\* line 340: return result
AccessorRangeEnd(t) ==
    /\ th[t].pc = "accessorRange"
    /\ th[t].todo \subseteq th[t].visited
    /\ Step(t, [th[t] EXCEPT !.pc = "done", !.todo = {},
                             !.result = th[t].visited # {}])
    /\ UNCHANGED <<metrics, metadata, loop, snap, hist>>

----------------------------------------------------------------------------
(* resetMetricsLoop and TrackedMetrics.Reset *)

\* TrackedMetrics.Reset, lines 105-115: the fields it stores to, in order
\* (ResponseQuantiles.Reset() of line 111 is outside this model)
ResetFieldsKeepCordon ==
    << "ErrorsTotal", "RequestsTotal", "SelfRateLimitedTotal",
       "RemoteRateLimitedTotal", "BlockHeadLag", "FinalizationLag",
       "CordonedReason" >>
ResetFields ==
    << "ErrorsTotal", "RequestsTotal", "SelfRateLimitedTotal",
       "RemoteRateLimitedTotal", "BlockHeadLag", "FinalizationLag",
       "Cordoned", "CordonedReason" >>

\* one Store of Reset
ResetStore(tm, f) ==
    CASE f = "ErrorsTotal" -> [tm EXCEPT !.ErrorsTotal = 0]
      [] f = "RequestsTotal" -> [tm EXCEPT !.RequestsTotal = 0]
      [] f = "SelfRateLimitedTotal" -> [tm EXCEPT !.SelfRateLimitedTotal = 0]
      [] f = "RemoteRateLimitedTotal" -> [tm EXCEPT !.RemoteRateLimitedTotal = 0]
      [] f = "BlockHeadLag" -> [tm EXCEPT !.BlockHeadLag = 0]
      [] f = "FinalizationLag" -> [tm EXCEPT !.FinalizationLag = 0]
      [] f = "Cordoned" -> [tm EXCEPT !.Cordoned = FALSE]
      [] f = "CordonedReason" -> [tm EXCEPT !.CordonedReason = ""]

CordonRunning == \E t \in Threads : InFlight(t) /\ th[t].op = "Cordon"

\* hist.smeared: a recorder call was in flight during the most recent tick
RecorderRunning == \E t \in Threads : InFlight(t) /\ th[t].kind \in Counters

\* line 155: case <-ticker.C; t.metrics.Range begins
Tick ==
    /\ loop.pc = "wait"
    /\ loop.ticks < MaxTicks
    /\ loop' = [loop EXCEPT !.pc = "range", !.todo = Present, !.visited = {},
                            !.ticks = @ + 1,
                            !.clean = \A t \in Threads : ~InFlight(t)]
    /\ th' = [t \in Threads |-> [th[t] EXCEPT !.clean = FALSE]]
    /\ hist' = [hist EXCEPT
                   !.overlapped = @ \/ \E t \in Threads : InFlight(t),
                   !.smeared = RecorderRunning,
                   !.tick = IF CordonRunning THEN "none" ELSE "ticking"]
    /\ snap' = [t \in Threads |-> NoSnap]
    /\ UNCHANGED <<metrics, metadata>>

\* lines 157-159: Range hands the callback a record not yet visited
ResetVisit ==
    /\ loop.pc = "range"
    /\ \E k \in Present \ loop.visited :
          /\ loop' = [loop EXCEPT !.pc = "reset", !.cur = k, !.j = 1,
                                  !.visited = @ \cup {k}]
          /\ hist' = [hist EXCEPT !.racing = RacingAfter(k)]
    /\ UNCHANGED <<metrics, metadata, th, snap>>

\* tm.Reset(): its next Store
ResetStep ==
    /\ loop.pc = "reset"
    /\ metrics' = [metrics EXCEPT ![loop.cur] = ResetStore(@, ResetFields[loop.j])]
    /\ loop' = IF loop.j < Len(ResetFields)
                 THEN [loop EXCEPT !.j = @ + 1]
                 ELSE [loop EXCEPT !.j = 0, !.pc = "range"]
    /\ UNCHANGED <<metadata, th, snap, hist>>

\* Range returns; the loop waits for the next tick
ResetRangeEnd ==
    /\ loop.pc = "range"
    /\ loop.todo \subseteq loop.visited
    /\ loop' = [loop EXCEPT !.pc = "wait", !.todo = {}, !.visited = {}, !.cur = NoKey]
    /\ hist' = [hist EXCEPT !.tick = IF @ = "ticking" THEN "done" ELSE @]
    /\ UNCHANGED <<metrics, metadata, th, snap>>

LoopStep == ResetVisit \/ ResetStep \/ ResetRangeEnd

\* the owner of the Tracker cancels the context
Cancel ==
    /\ loop.ctx = "live"
    /\ loop' = [loop EXCEPT !.ctx = "done"]
    /\ UNCHANGED <<metrics, metadata, th, snap, hist>>

\* lines 152-154: select takes `case <-ctx.Done(): return`. While a tick is
\* pending as well, select may take either case.
LoopExitBreaksSelect ==
    /\ loop.pc = "wait"
    /\ loop.ctx = "done"
    /\ UNCHANGED vars
LoopExit ==
    /\ loop.pc = "wait"
    /\ loop.ctx = "done"
    /\ loop' = [loop EXCEPT !.pc = "stopped"]
    /\ UNCHANGED <<metrics, metadata, th, snap, hist>>

----------------------------------------------------------------------------
(* The block number setters, and the recorder that creates the records     *)
(* their Range passes over                                                 *)

\* calls of the setters, with block numbers drawn from the two sets
SetterCall(t, latest, finalized) ==
    \/ \E ups \in Ups, network \in Nets, blockNumber \in latest :
          SetLatestBlockNumber(t, ups, network, blockNumber)
    \/ \E ups \in Ups, network \in Nets, blockNumber \in finalized :
          SetFinalizedBlockNumber(t, ups, network, blockNumber)

\* calls that create the records of upstreams on the setters' network and on
\* other networks
RecorderCall(t, upstreams, networks) ==
    \E ups \in upstreams, network \in networks :
        RecordUpstreamRequest(t, ups, network, "m1")

\* a call that creates the one record of (ups, network, "")
RollbackCall(t, upstreams) ==
    \E ups \in upstreams, network \in Nets :
        RecordBlockHeadLargeRollback(t, ups, network, MaxBlock, 1)

HeadStep(t) ==
    \/ GetMetadataLoad(t)
    \/ GetMetadataLoadOrStore(t)
    \/ FinalizedGetNtwMeta(t)
    \/ LoadNtw(t)
    \/ StoreNtw(t)
    \/ LoadUps(t)
    \/ StoreUps(t)
    \/ ReloadNtw(t)
    \/ ReloadUps(t)
    \/ RangeCascadeVisit(t)
    \/ OtherLoad(t)
    \/ OtherStore(t)
    \/ RangeOwnVisit(t)
    \/ RangeEnd(t)
    \/ GetMetricsLoad(t)
    \/ GetMetricsLoadOrStore(t)
    \/ Return(t)

\* one goroutine: the calls of a behaviour run one after the other
NextHeadSeq ==
    \/ hist.calls < MaxCalls /\ SetterCall("t1", BlockNumbers, BlockNumbers)
    \/ hist.calls < MaxCalls /\ RecorderCall("t1", Ups, RecNets)
    \/ HeadStep("t1")
    \/ RecordAdd("t1")

SpecHeadSeq == Init /\ [][NextHeadSeq]_vars

\* two goroutines: calls overlap
NextHead ==
    \E t \in Threads :
        \/ hist.setters < MaxRaceCalls /\ SetterCall(t, 1 .. MaxBlock, 1 .. MaxBlock)
        \/ hist.calls - hist.setters < MaxRaceRecords /\ RollbackCall(t, {"A"})
        \/ HeadStep(t)
        \/ RollbackStore(t)

SpecHead == Init /\ [][NextHead]_vars

----------------------------------------------------------------------------
(* Properties of the block number setters *)

Kinds == {"latest", "finalized"}
Setters == {"SetLatestBlockNumber", "SetFinalizedBlockNumber"}
Returned(t) == th[t].pc = "done"
AllReturned == \A t \in Threads : th[t].pc \in {"idle", "done"}

\* C1: no step of any interleaving of setter calls lowers a stored block number,
\* neither an upstream's own nor the network-wide one ("*", n).
C1_MarksNeverDecrease ==
    [][\A d \in AllDuoKeys, kd \in Kinds :
          Mark(metadata'[d], kd) >= Mark(metadata[d], kd)]_vars

\* the largest block number reported so far by any concrete upstream of network n
MaxReported(kd, n) ==
    LET m == {hist.seen[kd][duoKey(u, n)] : u \in Ups} IN
    CHOOSE x \in m : \A y \in m : y <= x

\* C2: whenever no call is in flight, the latest block stored for ("*", n) is the
\* maximum of the block numbers (> 0) reported so far by the upstreams of n.
C2_NetworkMarkIsMaxReported ==
    Quiescent =>
        \A n \in Nets :
            metadata[duoKey(Wild, n)].evmLatestBlockNumber = MaxReported("latest", n)

\* C3: after calls that ran one after the other, the block number stored for
\* (u, n) is the maximum of the positive values supplied for (u, n), whatever
\* their order; values <= 0 change nothing.
C3_MarkIsMaxSupplied ==
    (AllReturned /\ ~hist.overlapped) =>
        \A kd \in Kinds, u \in Ups, n \in Nets :
            Mark(metadata[duoKey(u, n)], kd) = hist.seen[kd][duoKey(u, n)]

\* C3 witness: a smaller value has arrived after a larger one, and a value <= 0 too
C3_Witness ==
    /\ ~hist.overlapped
    /\ Returned("t1")
    /\ th["t1"].op = "SetLatestBlockNumber"
    /\ th["t1"].ups = "A"
    /\ th["t1"].blockNumber = 1
    /\ metadata[duoKey("A", "n1")].evmLatestBlockNumber = 2

\* C4: when a setter call that advanced the network's block number returns, having
\* overlapped no other call, every record of that network whose upstream has a
\* block number > 0 holds lag = network's number - that upstream's number; the
\* records of upstreams without a positive number keep the lag they had.
C4_CascadeSetsEveryLag ==
    \A t \in Threads :
        (Returned(t) /\ th[t].op \in Setters /\ th[t].clean /\ th[t].needsGlobalUpdate) =>
            \A k \in Present :
                k.network = th[t].network =>
                    LET own == Mark(metadata[duoKey(k.ups, k.network)], th[t].kind)
                        ntw == Mark(metadata[duoKey(Wild, k.network)], th[t].kind)
                    IN  IF own > 0
                          THEN Lag(metrics[k], th[t].kind) = ntw - own
                          ELSE Lag(metrics[k], th[t].kind) = Lag(snap[t][k], th[t].kind)

\* C4 witness: B's report of 2 has advanced the network past A's 1, and A's
\* record now holds lag 1
C4_Witness ==
    \E t \in Threads :
        /\ Returned(t) /\ th[t].clean /\ th[t].needsGlobalUpdate
        /\ th[t].op = "SetLatestBlockNumber"
        /\ th[t].ups = "B"
        /\ th[t].blockNumber = 2
        /\ metrics[tripletKey("A", "n1", "m1")].present
        /\ metrics[tripletKey("A", "n1", "m1")].BlockHeadLag = 1
        /\ metrics[tripletKey(Wild, "n1", Wild)].BlockHeadLag = 0

----------------------------------------------------------------------------
(* The recorders *)

NoThreadRunning == \A t \in Threads : ~InFlight(t)

RecCall(t, upstreams, networks) ==
    \/ \E ups \in upstreams, network \in networks, method \in Methods :
          RecordUpstreamRequest(t, ups, network, method)
    \/ RecordUpstreamFailure(t, "A", "n1", "m1")
    \/ RecordUpstreamSelfRateLimited(t, "A", "n1", "m1")
    \/ RecordUpstreamRemoteRateLimited(t, "A", "n1", "m1")
    \/ \E newVal \in 1 .. MaxBlock :
          RecordBlockHeadLargeRollback(t, "A", "n1", MaxBlock, newVal)

RecStep(t) ==
    \/ GetMetricsLoad(t)
    \/ GetMetricsLoadOrStore(t)
    \/ RecordAdd(t)
    \/ RollbackStore(t)
    \/ Return(t)

\* one goroutine: the calls of a behaviour run one after the other
NextRecorders ==
    \/ hist.calls < MaxCalls /\ RecCall("t1", Ups, RecNets)
    \/ RecStep("t1")

SpecRecorders == Init /\ [][NextRecorders]_vars

\* one goroutine and the reset loop, whose ticks fall between the calls
NextRecSeq ==
    \/ hist.calls < MaxCalls /\ ~LoopInFlight /\ RecCall("t1", {"A"}, {"n1"})
    \/ RecStep("t1")
    \/ NoThreadRunning /\ Tick
    \/ LoopStep

SpecRecSeq == Init /\ [][NextRecSeq]_vars

\* two goroutines recording requests at the same time; no tick
RaceStep(t) ==
    \/ GetMetricsLoad(t)
    \/ GetMetricsLoadOrStore(t)
    \/ RecordAdd(t)
    \/ Return(t)

NextRecRace ==
    \E t \in Threads :
        \/ /\ hist.calls < MaxRecCalls
           /\ \E method \in Methods : RecordUpstreamRequest(t, "A", "n1", method)
        \/ RaceStep(t)

SpecRecRace == Init /\ [][NextRecRace]_vars

\* the calls that follow the first one, made while the loop waits for a tick
LaterRecCall(t) ==
    \/ \E method \in Methods : RecordUpstreamRequest(t, "A", "n1", method)
    \/ RecordUpstreamFailure(t, "A", "n1", "m1")

\* one goroutine recording while the reset loop ticks: the ticks begin before,
\* during or after the goroutine's first call, at any of its steps, and its
\* later calls follow them
NextRollup ==
    \/ hist.calls = 0 /\ RecordUpstreamRequest("t1", "A", "n1", "m1")
    \/ /\ 0 < hist.calls
       /\ hist.calls < MaxRaceCalls
       /\ ~LoopInFlight
       /\ LaterRecCall("t1")
    \/ RaceStep("t1")
    \/ hist.calls <= 1 /\ Tick
    \/ LoopStep

SpecRollup == Init /\ [][NextRollup]_vars

----------------------------------------------------------------------------
(* Cordon control *)

CordonCall(t, upstreams) ==
    \/ \E ups \in upstreams, method \in {"m1", Wild}, reason \in Reasons :
          Cordon(t, ups, "n1", method, reason)
    \/ \E ups \in upstreams, method \in {"m1", Wild} : Uncordon(t, ups, "n1", method)

IsCordonedCall(t, upstreams) ==
    \E ups \in upstreams, method \in {"m1", Wild} : IsCordoned(t, ups, "n1", method)

CordonStep(t) ==
    \/ GetMetricsLoad(t)
    \/ GetMetricsLoadOrStore(t)
    \/ CordonedStore(t)
    \/ CordonedReasonStore(t)
    \/ Return(t)

IsCordonedStep(t) ==
    \/ IsCordonedWild(t)
    \/ IsCordonedExact(t)

\* one goroutine and the reset loop, whose ticks fall between the calls
NextCordonSeq ==
    \/ hist.calls < MaxCalls /\ ~LoopInFlight /\ CordonCall("t1", Ups)
    \/ hist.calls < MaxCalls /\ ~LoopInFlight /\ IsCordonedCall("t1", Ups)
    \/ CordonStep("t1")
    \/ IsCordonedStep("t1")
    \/ NoThreadRunning /\ Tick
    \/ LoopStep

SpecCordonSeq == Init /\ [][NextCordonSeq]_vars

\* the calls of the two goroutines: one cordons, the other uncordons
CordonRaceCall(t) ==
    \/ /\ t = "t1"
       /\ \E method \in {"m1", Wild}, reason \in Reasons :
             Cordon(t, "A", "n1", method, reason)
    \/ /\ t = "t2"
       /\ \E method \in {"m1", Wild} : Uncordon(t, "A", "n1", method)

\* a goroutine cordoning, a goroutine uncordoning and the reset loop, all running at
\* the same time
NextCordon ==
    \/ \E t \in Threads :
          \/ hist.calls < MaxRaceCalls /\ CordonRaceCall(t)
          \/ CordonStep(t)
    \/ Tick
    \/ LoopStep

SpecCordon == Init /\ [][NextCordon]_vars

----------------------------------------------------------------------------
(* Two goroutines creating the same Metric Record and the same Head Metadata *)

NextCreate ==
    \E t \in Threads :
        \/ hist.setters < MaxRaceCalls /\ SetFinalizedBlockNumber(t, "A", "n1", 1)
        \/ hist.calls - hist.setters < MaxRaceCalls /\ RollbackCall(t, {"A"})
        \/ HeadStep(t)
        \/ RollbackStore(t)

SpecCreate == Init /\ [][NextCreate]_vars

----------------------------------------------------------------------------
(* A goroutine reporting latest blocks while another creates a record *)

MissStep(t) ==
    \/ GetMetadataLoad(t)
    \/ GetMetadataLoadOrStore(t)
    \/ LoadNtw(t)
    \/ StoreNtw(t)
    \/ LoadUps(t)
    \/ StoreUps(t)
    \/ ReloadNtw(t)
    \/ ReloadUps(t)
    \/ RangeCascadeVisit(t)
    \/ OtherLoad(t)
    \/ OtherStore(t)
    \/ RangeOwnVisit(t)
    \/ RangeEnd(t)
    \/ GetMetricsLoad(t)
    \/ GetMetricsLoadOrStore(t)
    \/ RollbackStore(t)
    \/ Return(t)

NextMiss ==
    \/ /\ hist.setters < MaxCalls
       /\ \E ups \in Ups, blockNumber \in 1 .. MaxBlock :
             SetLatestBlockNumber("t1", ups, "n1", blockNumber)
    \/ hist.calls - hist.setters < MaxRaceRecords /\ RollbackCall("t2", {"A"})
    \/ \E t \in Threads : MissStep(t)

SpecMiss == Init /\ [][NextMiss]_vars

----------------------------------------------------------------------------
(* Cordon control, recorders and setters on the same records, one call after *)
(* another                                                                   *)

NextFrame ==
    \/ hist.calls < MaxCalls /\ CordonCall("t1", {"A"})
    \/ hist.calls < MaxCalls /\ RecorderCall("t1", {"A"}, Nets)
    \/ hist.calls < MaxCalls /\ RecordUpstreamFailure("t1", "A", "n1", "m1")
    \/ hist.calls < MaxCalls /\ SetterCall("t1", {1}, {1})
    \/ HeadStep("t1")
    \/ RecordAdd("t1")
    \/ CordonedStore("t1")
    \/ CordonedReasonStore("t1")

SpecFrame == Init /\ [][NextFrame]_vars

----------------------------------------------------------------------------
(* The reset loop and its context *)

NextLoop ==
    \/ hist.calls < MaxRaceRecords /\ RollbackCall("t1", {"A"})
    \/ GetMetricsLoad("t1")
    \/ GetMetricsLoadOrStore("t1")
    \/ RollbackStore("t1")
    \/ Return("t1")
    \/ Tick
    \/ LoopStep
    \/ Cancel
    \/ LoopExit

\* The loop's goroutine is scheduled again and again (weak fairness of its
\* steps), and a select that keeps finding ctx.Done() ready does not take the
\* tick for ever (strong fairness of the exit).
SpecLoop ==
    Init /\ [][NextLoop]_vars /\ WF_vars(LoopStep) /\ SF_vars(LoopExit)

----------------------------------------------------------------------------
(* Everything that reads or writes the metrics store, one call after another *)

AccessorCall(t) ==
    \/ \E method \in Methods : GetUpstreamMethodMetrics(t, "A", "n1", method)
    \/ GetNetworkMethodMetrics(t, "n1", "m1")
    \/ \E upsId \in Ups : GetUpstreamMetrics(t, upsId)

AccessorStep(t) ==
    \/ AccessorReturn(t)
    \/ AccessorRangeVisit(t)
    \/ AccessorRangeEnd(t)

NextAccess ==
    \/ hist.calls < MaxCalls /\ ~LoopInFlight /\ AccessorCall("t1")
    \/ hist.calls < MaxCalls /\ ~LoopInFlight /\ RecorderCall("t1", {"A"}, Nets)
    \/ hist.calls < MaxCalls /\ ~LoopInFlight /\ CordonCall("t1", {"A"})
    \/ hist.calls < MaxCalls /\ ~LoopInFlight /\ IsCordonedCall("t1", {"A"})
    \/ hist.calls < MaxCalls /\ ~LoopInFlight /\ SetterCall("t1", {1}, {1})
    \/ AccessorStep("t1")
    \/ HeadStep("t1")
    \/ RecordAdd("t1")
    \/ CordonedStore("t1")
    \/ CordonedReasonStore("t1")
    \/ IsCordonedStep("t1")
    \/ NoThreadRunning /\ Tick
    \/ LoopStep

SpecAccess == Init /\ [][NextAccess]_vars

----------------------------------------------------------------------------
(* Properties of the recorders *)

Recorders == {"RecordUpstreamRequest", "RecordUpstreamFailure",
              "RecordUpstreamSelfRateLimited", "RecordUpstreamRemoteRateLimited"}

\* the exact key of a triplet and its four rollup keys
FiveKeys(u, n, m) ==
    {tripletKey(u, n, m), tripletKey(u, n, Wild), tripletKey(u, Wild, Wild),
     tripletKey(Wild, n, m), tripletKey(Wild, n, Wild)}

\* the record a key had when the call of t began, a fresh one if it had none
Before(t, k) == IF snap[t][k].present THEN snap[t][k] ELSE NewTrackedMetrics

\* C5: when a recorder call for a concrete (u, n, m) returns, having overlapped
\* nothing, each of the five keys has a record whose counter is one more than
\* before (a fresh record counts from 0) with its other fields as before, and
\* every other key is as it was, absent keys included.
C5_RecorderTouchesFiveKeys ==
    \A t \in Threads :
        (Returned(t) /\ th[t].clean /\ th[t].op \in Recorders) =>
            \A k \in AllKeys :
                IF k \in FiveKeys(th[t].ups, th[t].network, th[t].method)
                  THEN /\ metrics[k].present
                       /\ Counter(metrics[k], th[t].kind)
                            = Counter(Before(t, k), th[t].kind) + 1
                       /\ \A f \in Counters \ {th[t].kind} :
                            Counter(metrics[k], f) = Counter(Before(t, k), f)
                       /\ metrics[k].BlockHeadLag = Before(t, k).BlockHeadLag
                       /\ metrics[k].FinalizationLag = Before(t, k).FinalizationLag
                       /\ metrics[k].BlockHeadLargeRollback
                            = Before(t, k).BlockHeadLargeRollback
                       /\ metrics[k].Cordoned = Before(t, k).Cordoned
                       /\ metrics[k].CordonedReason = Before(t, k).CordonedReason
                  ELSE metrics[k] = snap[t][k]

\* C5 witness: a failure recorded for (A, n1, m1) after a request for the sibling
\* (A, n1, m2): the rollup (A, n1, *) holds both, the sibling holds no error
C5_Witness ==
    /\ Returned("t1") /\ th["t1"].clean
    /\ th["t1"].op = "RecordUpstreamFailure"
    /\ metrics[tripletKey("A", "n1", "m1")].ErrorsTotal = 1
    /\ metrics[tripletKey("A", "n1", "m2")].RequestsTotal = 1
    /\ metrics[tripletKey("A", "n1", "m2")].ErrorsTotal = 0
    /\ metrics[tripletKey("A", "n1", Wild)].RequestsTotal = 1
    /\ metrics[tripletKey("A", "n1", Wild)].ErrorsTotal = 1

\* C6: once all calls have returned and no tick has fired, the request counter
\* of every exact key equals the number of RecordUpstreamRequest calls made for
\* it, by whichever goroutines and however interleaved; when all calls were for
\* one triplet, its four rollup keys hold that number too.
C6_NoIncrementLost ==
    (Quiescent /\ loop.ticks = 0) =>
        \A k \in ConcreteKeys :
            LET calls == hist.recorded["RequestsTotal"][k] IN
            /\ metrics[k].RequestsTotal = calls
            /\ (calls > 0 /\ calls = hist.calls) =>
                  \A r \in FiveKeys(k.ups, k.network, k.method) :
                      metrics[r].present /\ metrics[r].RequestsTotal = calls

\* C6 witness: two goroutines, two overlapping calls each, all for (A, n1, m1)
C6_Witness ==
    /\ Quiescent
    /\ hist.overlapped
    /\ hist.by["t1"] = 2
    /\ hist.by["t2"] = 2
    /\ hist.recorded["RequestsTotal"][tripletKey("A", "n1", "m1")] = 4
    /\ metrics[tripletKey(Wild, "n1", Wild)].RequestsTotal = 4

\* C10 (as claimed): when Reset() on a record has returned, with no call running
\* since the tick began, its four counters and its three gauges are 0.
C10_ResetZeroesCountersAndGauges ==
    (loop.pc = "range" /\ loop.cur # NoKey /\ loop.clean) =>
        LET tm == metrics[loop.cur] IN
        /\ tm.RequestsTotal = 0
        /\ tm.ErrorsTotal = 0
        /\ tm.SelfRateLimitedTotal = 0
        /\ tm.RemoteRateLimitedTotal = 0
        /\ tm.BlockHeadLag = 0
        /\ tm.FinalizationLag = 0
        /\ tm.BlockHeadLargeRollback = 0

----------------------------------------------------------------------------
(* Properties of cordon control *)

\* the record of key k is in the map and its flag is set
CordonedRecord(k) == metrics[k].present /\ metrics[k].Cordoned

\* C7 (as claimed): IsCordoned(u, n, m) is true right after Cordon(u, n, m, reason)
\* and false right after Uncordon(u, n, m), from every reachable state.
C7_CordonThenUncordon ==
    \A t \in Threads :
        (Returned(t) /\ th[t].clean) =>
            /\ th[t].op = "Cordon" =>
                  IsCordonedIn(metrics, th[t].ups, th[t].network, th[t].method)
            /\ th[t].op = "Uncordon" =>
                  ~IsCordonedIn(metrics, th[t].ups, th[t].network, th[t].method)

\* C7 (amended): IsCordoned(u, n, m) is true right after Cordon(u, n, m, reason);
\* right after Uncordon(u, n, m) it is false unless m is a concrete method and
\* the record of (u, n, "*") is cordoned, and then it is true.
C7_UncordonUnlessNetworkWide ==
    \A t \in Threads :
        (Returned(t) /\ th[t].clean) =>
            /\ th[t].op = "Cordon" =>
                  IsCordonedIn(metrics, th[t].ups, th[t].network, th[t].method)
            /\ th[t].op = "Uncordon" =>
                  (IsCordonedIn(metrics, th[t].ups, th[t].network, th[t].method)
                     <=> (/\ th[t].method # Wild
                          /\ CordonedRecord(
                                 tripletKey(th[t].ups, th[t].network, Wild))))

\* C7 witness: Uncordon(A, n1, m1) has returned while (A, n1, *) is cordoned
C7_Witness ==
    /\ Returned("t1") /\ th["t1"].clean
    /\ th["t1"].op = "Uncordon"
    /\ th["t1"].method = "m1"
    /\ CordonedRecord(tripletKey(th["t1"].ups, "n1", Wild))
    /\ metrics[tripletKey(th["t1"].ups, "n1", "m1")].present
    /\ ~metrics[tripletKey(th["t1"].ups, "n1", "m1")].Cordoned

\* C8: a call of IsCordoned(u, n, m) that overlapped nothing returns true iff
\* the record of (u, n, "*") exists and is cordoned or the record of (u, n, m)
\* exists and is cordoned.
C8_IsCordonedIffWildOrExact ==
    \A t \in Threads :
        (Returned(t) /\ th[t].clean /\ th[t].op = "IsCordoned") =>
            (th[t].result <=>
                \/ CordonedRecord(tripletKey(th[t].ups, th[t].network, Wild))
                \/ CordonedRecord(tripletKey(th[t].ups, th[t].network, th[t].method)))

\* C8 witness: IsCordoned(u, n1, m1) returned true although the exact record
\* exists and is OPEN (it was uncordoned), because (u, n1, *) is cordoned
C8_Witness ==
    /\ Returned("t1") /\ th["t1"].clean
    /\ th["t1"].op = "IsCordoned"
    /\ th["t1"].method = "m1"
    /\ th["t1"].result
    /\ metrics[tripletKey(th["t1"].ups, "n1", "m1")].present
    /\ ~metrics[tripletKey(th["t1"].ups, "n1", "m1")].Cordoned
    /\ metrics[tripletKey(th["t1"].ups, "n1", "m1")].CordonedReason = ""

\* C9: once a tick has completed with no Cordon call running during it, and
\* until the next Cordon call begins, every record is OPEN with no reason and
\* IsCordoned is false for every triplet.
C9_TickOpensEverything ==
    hist.tick = "done" =>
        /\ \A k \in Present :
              ~metrics[k].Cordoned /\ metrics[k].CordonedReason \in {"", NilReason}
        /\ \A u \in Ups \cup {Wild}, n \in RecNets \cup {Wild},
              m \in Methods \cup {Wild} :
              ~IsCordonedIn(metrics, u, n, m)

\* C9 witness: only Cordon calls were made, the tick came after them, and the
\* record they cordoned has been reset
C9_Witness ==
    /\ hist.tick = "done"
    /\ hist.cordons = hist.calls
    /\ hist.calls > 0
    /\ metrics[tripletKey("A", "n1", Wild)].present
    /\ metrics[tripletKey("A", "n1", Wild)].CordonedReason = ""

----------------------------------------------------------------------------
(* Properties of record creation and of the accessors *)

\* some recorder call has been made for the concrete triplet c
Recorded(c) == \E f \in Counters : hist.recorded[f][c] > 0

\* an observation has occurred for k or for a concrete triplet whose five keys
\* contain k
Observed(k) ==
    \E c \in ConcreteKeys :
        Recorded(c) /\ k \in FiveKeys(c.ups, c.network, c.method)

\* C11 (as claimed): a record for a key (with a method or "*") is in the store
\* only if an observation has occurred for it or for a concrete triplet whose
\* five keys contain it, and once the observing calls have returned it is in
\* the store; accessors, IsCordoned, Cordon/Uncordon, the setters and the reset
\* loop bring no record into existence.
C11_RecordIffObserved ==
    \A k \in AllKeys :
        k.method # "" =>
            /\ metrics[k].present => Observed(k)
            /\ (AllReturned /\ Observed(k)) => metrics[k].present

AccessorsOfOne == {"GetUpstreamMethodMetrics", "GetNetworkMethodMetrics"}

\* C14 (as claimed): an accessor called for a key that has no record returns
\* nothing (no record, an empty map).
C14_AccessorOfAbsentKeyReturnsNothing ==
    \A t \in Threads :
        (Returned(t) /\ th[t].clean) =>
            /\ (th[t].op \in AccessorsOfOne /\ ~snap[t][th[t].cur].present)
                  => ~th[t].result
            /\ (/\ th[t].op = "GetUpstreamMetrics"
                /\ \A k \in AllKeys : snap[t][k].present => k.ups # th[t].ups)
                  => th[t].visited = {}

\* goroutine t has just come out of LoadOrStore in getMetadata / getMetrics
Held(t) == th[t].pc = th[t].ret
HeldKey(t) ==
    IF th[t].pc \in {"loadNtw", "getNtwMeta", "loadUps", "otherLoad"}
      THEN th[t].md ELSE th[t].cur
InStore(k) == IF k \in AllDuoKeys THEN metadata[k].present ELSE metrics[k].present

\* C12: whenever goroutines come out of a racing get-or-create, the key has an
\* instance in the store, it is the candidate of at most one of the racing
\* calls, and a caller that was handed its own candidate is the one whose
\* candidate is in the store: every caller holds the stored instance.
C12_OneInstancePerKey ==
    \A t \in Threads :
        Held(t) =>
            /\ InStore(HeldKey(t))
            /\ th[t].tm \in {"actual", "new"}
            /\ th[t].tm = "new" => HeldKey(t) \in th[t].mine
            /\ \A o \in Threads \ {t} :
                  ~(HeldKey(t) \in th[t].mine /\ HeldKey(t) \in th[o].mine)

\* C12 witness: both goroutines missed the Load of the key (A, n1, ""), one
\* inserted its candidate and the other was handed that instance
C12_Witness ==
    /\ Held("t1") /\ Held("t2")
    /\ HeldKey("t1") = tripletKey("A", "n1", "")
    /\ HeldKey("t2") = tripletKey("A", "n1", "")
    /\ th["t1"].tm = "new"
    /\ th["t1"].mine = {tripletKey("A", "n1", "")}
    /\ th["t2"].tm = "actual"

\* C13: no step of a setter call whose block number is <= 0, from its first to
\* its last, changes either store: no Head Metadata is created, no block number
\* and no lag gauge changes.
C13_NonPositiveIsNoOp ==
    [][\A t \in Threads :
          (th'[t].op \in Setters /\ th'[t].blockNumber <= 0 /\ th'[t].pc # "idle")
              => (metadata' = metadata /\ metrics' = metrics)]_vars

\* C13 witness: a setter call with block number 0 has returned, records exist,
\* and neither its upstream nor the network has a Head Metadata
C13_Witness ==
    /\ Returned("t1")
    /\ th["t1"].op = "SetFinalizedBlockNumber"
    /\ th["t1"].blockNumber = 0
    /\ metrics[tripletKey(th["t1"].ups, "n1", "m1")].present
    /\ ~metadata[duoKey(th["t1"].ups, "n1")].present
    /\ ~metadata[duoKey(Wild, "n1")].present

\* C15: after any sequence of RecordUpstreamRequest / RecordUpstreamFailure
\* calls (r requests and e failures for a triplet), ErrorRate() of the triplet's
\* record is a number, equal to e / r when r > 0 and to 0 when r = 0.
C15_ErrorRateIsErrorsOverRequests ==
    AllReturned =>
        \A k \in ConcreteKeys :
            metrics[k].present =>
                LET r == hist.recorded["RequestsTotal"][k]
                    e == hist.recorded["ErrorsTotal"][k]
                    rate == ErrorRate(metrics[k])
                IN  /\ rate[2] # 0
                    /\ IF r > 0 THEN rate[1] * r = e * rate[2] ELSE rate[1] = 0

\* C15 witness: one failure in two requests for (A, n1, m1): the rate is 1/2
C15_Witness ==
    /\ AllReturned
    /\ hist.recorded["RequestsTotal"][tripletKey("A", "n1", "m1")] = 2
    /\ hist.recorded["ErrorsTotal"][tripletKey("A", "n1", "m1")] = 1
    /\ ErrorRate(metrics[tripletKey("A", "n1", "m1")]) = <<1, 2>>

\* C16: once the context is cancelled the loop eventually returns, whatever
\* ticks are pending; and once it has returned it takes no further step, so
\* the store changes only by a step of a calling goroutine.
C16_LoopStopsAfterCancel ==
    /\ (loop.ctx = "done") ~> (loop.pc = "stopped")
    /\ [][loop.pc = "stopped" =>
            /\ [loop' EXCEPT !.clean = FALSE] = [loop EXCEPT !.clean = FALSE]
            /\ metrics' # metrics => th' # th]_vars

\* C16 witness: the loop has returned after a tick in which it reset a record
\* whose rollback gauge was set
C16_Witness ==
    /\ loop.pc = "stopped"
    /\ loop.ticks > 0
    /\ metrics[tripletKey("A", "n1", "")].present
    /\ metrics[tripletKey("A", "n1", "")].CordonedReason = ""

\* C17 (as claimed): in every execution, a setter call that has written its
\* block number to the network's mark ("*", n) also writes it to the mark of
\* its own upstream (u, n) (the upstream's old value was smaller); and when such
\* a call that overlapped nothing returns, both marks hold its block number.
C17_GlobalAdvanceImpliesUpstreamUpdate ==
    \A t \in Threads :
        (th[t].op \in Setters /\ th[t].needsGlobalUpdate) =>
            /\ th[t].pc = "reloadNtw" => th[t].blockNumber > th[t].oldVal
            /\ (Returned(t) /\ th[t].clean) =>
                  /\ Mark(metadata[duoKey(th[t].ups, th[t].network)], th[t].kind)
                       = th[t].blockNumber
                  /\ Mark(metadata[duoKey(Wild, th[t].network)], th[t].kind)
                       = th[t].blockNumber

\* C18: when a setter call with a block number > 0 that did not advance the
\* network's mark returns, having overlapped nothing, every record of its own
\* upstream and network holds lag = network's mark - upstream's mark and is
\* otherwise as before; every other record (other upstreams, wildcard upstream,
\* other networks) is exactly as before, and no record has been created.
C18_NoAdvanceTouchesOwnRecordsOnly ==
    \A t \in Threads :
        (/\ Returned(t) /\ th[t].clean /\ th[t].op \in Setters
         /\ th[t].blockNumber > 0 /\ ~th[t].needsGlobalUpdate) =>
            LET own == Mark(metadata[duoKey(th[t].ups, th[t].network)], th[t].kind)
                ntw == Mark(metadata[duoKey(Wild, th[t].network)], th[t].kind)
            IN  \A k \in AllKeys :
                    IF /\ snap[t][k].present
                       /\ k.ups = th[t].ups
                       /\ k.network = th[t].network
                      THEN metrics[k] = SetLag(snap[t][k], th[t].kind, ntw - own)
                      ELSE metrics[k] = snap[t][k]

\* C18 witness: B has reported 2; A's report of 1 does not advance the network
\* and sets lag 1 on A's records while B's and the wildcard records keep lag 0
C18_Witness ==
    /\ Returned("t1") /\ th["t1"].clean
    /\ th["t1"].op = "SetLatestBlockNumber"
    /\ th["t1"].ups = "A"
    /\ th["t1"].blockNumber = 1
    /\ ~th["t1"].needsGlobalUpdate
    /\ metadata[duoKey("B", "n1")].evmLatestBlockNumber = 2
    /\ snap["t1"][tripletKey("A", "n1", "m1")].present
    /\ snap["t1"][tripletKey("A", "n1", "m1")].BlockHeadLag = 0
    /\ metrics[tripletKey("A", "n1", "m1")].BlockHeadLag = 1
    /\ metrics[tripletKey(Wild, "n1", "m1")].BlockHeadLag = 0

\* C19: when a setter call with a block number > 0 for (u, n) returns, having
\* overlapped nothing, every record of upstream u and network n holds
\* lag = network's mark - upstream's mark: whatever a cascade pass that ran
\* while the record was being created left in it is corrected.
C19_NextObservationCorrectsLag ==
    \A t \in Threads :
        (/\ Returned(t) /\ th[t].clean /\ th[t].op \in Setters
         /\ th[t].blockNumber > 0) =>
            \A k \in Present :
                (k.ups = th[t].ups /\ k.network = th[t].network) =>
                    Lag(metrics[k], th[t].kind) =
                        Mark(metadata[duoKey(Wild, k.network)], th[t].kind)
                          - Mark(metadata[duoKey(k.ups, k.network)], th[t].kind)

\* C19 witness: the record (A, n1, "") was stored while a cascade pass ran and
\* the pass ended without visiting it, leaving lag 0 although A was behind; A's
\* next report, overlapping nothing, has set its lag to 1
C19_Witness ==
    /\ Returned("t1") /\ th["t1"].clean
    /\ th["t1"].op = "SetLatestBlockNumber"
    /\ th["t1"].ups = "A"
    /\ tripletKey("A", "n1", "") \in hist.missed
    /\ snap["t1"][tripletKey("A", "n1", "")].present
    /\ snap["t1"][tripletKey("A", "n1", "")].BlockHeadLag = 0
    /\ metrics[tripletKey("A", "n1", "")].BlockHeadLag = 1

\* C20 (as claimed): a Head Metadata for a concrete pair (u, n) is in the store
\* only if a setter has been called for (u, n) with a block number > 0
\* (reports of other upstreams, cascades and recorders create none), and a Head
\* Metadata once in the store stays there.
C20_MetadataOnlyOnOwnObservation ==
    /\ [](\A u \in Ups, n \in RecNets :
            metadata[duoKey(u, n)].present =>
                \/ hist.seen["latest"][duoKey(u, n)] > 0
                \/ hist.seen["finalized"][duoKey(u, n)] > 0)
    /\ [][\A d \in AllDuoKeys : metadata[d].present => metadata'[d].present]_vars

----------------------------------------------------------------------------
(* Properties of the cordon state's frame *)

\* the counters and gauges of a record
Numbers(tm) ==
    << tm.RequestsTotal, tm.ErrorsTotal, tm.SelfRateLimitedTotal,
       tm.RemoteRateLimitedTotal, tm.BlockHeadLag, tm.FinalizationLag,
       tm.BlockHeadLargeRollback >>

\* the cordon flag and reason of a record
CordonState(tm) == << tm.Cordoned, tm.CordonedReason >>

\* goroutine t takes this step
Moves(t) == th'[t] # th[t]

\* C21: a step of Cordon(u, n, m, reason) or Uncordon(u, n, m) changes no
\* counter and no gauge of any record and no flag or reason of a record other
\* than that of exactly (u, n, m); a step of a recorder or of a setter changes
\* the flag and the reason of no record.
C21_CordonStateIsPerExactKey ==
    [][\A t \in Threads :
          Moves(t) =>
              /\ th[t].op \in CordonOps =>
                    \A k \in AllKeys :
                        /\ Numbers(metrics'[k]) = Numbers(metrics[k])
                        /\ k # tripletKey(th[t].ups, th[t].network, th[t].method)
                              => metrics'[k] = metrics[k]
              /\ th[t].op \in Recorders \cup Setters =>
                    \A k \in AllKeys :
                        CordonState(metrics'[k]) = CordonState(metrics[k])]_vars

\* C21 witness: Cordon(A, n1, m1) has returned with the request counters of the
\* record and of its rollup (A, n1, *) still 1 and the rollup still OPEN
C21_Witness ==
    /\ Returned("t1")
    /\ th["t1"].op = "Cordon"
    /\ th["t1"].method = "m1"
    /\ metrics[tripletKey("A", "n1", "m1")].Cordoned
    /\ metrics[tripletKey("A", "n1", "m1")].RequestsTotal = 1
    /\ metrics[tripletKey("A", "n1", Wild)].RequestsTotal = 1
    /\ ~metrics[tripletKey("A", "n1", Wild)].Cordoned
    /\ metrics[tripletKey("A", "n1", Wild)].CordonedReason = NilReason

----------------------------------------------------------------------------
(* Properties of cordon control racing with itself and with Reset *)

\* flag and reason of a record agree
Consistent(tm) ==
    IF tm.Cordoned THEN tm.CordonedReason \in Reasons
    ELSE tm.CordonedReason \in {"", NilReason}

\* C22 as stated: in every quiescent state, whatever Cordon, Uncordon and Reset
\* calls have overlapped on a record, an OPEN record has an empty or never-set
\* reason and a CORDONED record holds the reason passed by a Cordon call.
C22_FlagAndReasonConsistent ==
    Quiescent => \A k \in Present : Consistent(metrics[k])

\* C22 amended: in every quiescent state, a record whose most recent Cordon,
\* Uncordon or Reset overlapped no other Cordon, Uncordon or Reset on that record
\* is OPEN with an empty or never-set reason or CORDONED with the reason passed
\* by a Cordon call.
C22_ConsistentAfterCallAlone ==
    Quiescent => \A k \in Present \ hist.racing : Consistent(metrics[k])

\* C22 witness: calls have overlapped, the last one on (A, n1, m1) ran alone on
\* that record and left it CORDONED with its reason, and the reset loop has
\* visited records
C22_Witness ==
    /\ Quiescent
    /\ hist.overlapped
    /\ loop.ticks > 0
    /\ tripletKey("A", "n1", "m1") \notin hist.racing
    /\ metrics[tripletKey("A", "n1", "m1")].Cordoned
    /\ metrics[tripletKey("A", "n1", "m1")].CordonedReason \in Reasons
    /\ metrics[tripletKey("A", "n1", Wild)].present

----------------------------------------------------------------------------
(* Properties of the rollups under recorders racing with Reset *)

RECURSIVE Sum(_, _)
Sum(c, S) ==
    IF S = {} THEN 0
    ELSE LET k == CHOOSE k \in S : TRUE
         IN Counter(metrics[k], c) + Sum(c, S \ {k})

\* every rollup counter is the sum of the exact-key counters it aggregates
RollupsAreSums ==
    \A c \in Counters :
        /\ \A u \in Ups, n \in RecNets :
              Counter(metrics[tripletKey(u, n, Wild)], c)
                 = Sum(c, {tripletKey(u, n, m) : m \in Methods})
        /\ \A n \in RecNets, m \in Methods :
              Counter(metrics[tripletKey(Wild, n, m)], c)
                 = Sum(c, {tripletKey(u, n, m) : u \in Ups})
        /\ \A n \in RecNets :
              Counter(metrics[tripletKey(Wild, n, Wild)], c)
                 = Sum(c, {tripletKey(u, n, m) : u \in Ups, m \in Methods})
        /\ \A u \in Ups :
              Counter(metrics[tripletKey(u, Wild, Wild)], c)
                 = Sum(c, {tripletKey(u, n, m) : n \in RecNets, m \in Methods})

\* C23 as stated: in every quiescent state, however recorder calls on concrete
\* triplets and reset ticks have interleaved, each rollup counter equals the sum
\* of the exact-key counters it aggregates.
C23_RollupsAreSums ==
    Quiescent => RollupsAreSums

\* C23 amended: in every quiescent state in which no recorder call was in
\* flight during the most recent reset tick, each rollup counter equals the sum
\* of the exact-key counters it aggregates.
C23_RollupsAreSumsUnlessTickOverlapped ==
    (Quiescent /\ ~hist.smeared) => RollupsAreSums

\* C23 witness: a tick, with no recorder in flight, reset the records of the
\* request recorded for (A, n1, m1), and a request for (A, n1, m2) was recorded
\* after it
C23_Witness ==
    /\ Quiescent
    /\ ~hist.smeared
    /\ loop.ticks > 0
    /\ hist.recorded["RequestsTotal"][tripletKey("A", "n1", "m1")] = 1
    /\ metrics[tripletKey("A", "n1", "m1")].RequestsTotal = 0
    /\ metrics[tripletKey("A", "n1", "m2")].RequestsTotal = 1
    /\ metrics[tripletKey("A", "n1", Wild)].RequestsTotal = 1
    /\ metrics[tripletKey("A", Wild, Wild)].RequestsTotal = 1
    /\ metrics[tripletKey(Wild, "n1", Wild)].RequestsTotal = 1

====
